---- MODULE Spec2Model ----
(***************************************************************************)
(* A model of avndb (src/avndb/client.py): the filter records Released,    *)
(* Length, VNDBFilter and VNFilter with their construction-time checks,    *)
(* the translation of a VNFilter into a VNDB filter expression, and the    *)
(* VNDBClient session lifecycle with its five network operations.          *)
(*                                                                         *)
(* Python values are tagged records, so that the run-time type tests of    *)
(* the code (isinstance) and its truthiness tests are computed, not        *)
(* assumed: PyStr(s), PyInt(i), PyList(q), PyNone.                          *)
(***************************************************************************)
EXTENDS Integers, Sequences, FiniteSets, TLC

VARIABLES
  ctor,      \* the last constructor call of a filter record and its outcome
  parsed,    \* the last call of _parse_vn_filter: argument and returned list
  session,   \* VNDBClient.session: NoSession or the id of a ClientSession
  opened,    \* the ClientSessions the client created and has not closed
  created,   \* how many ClientSessions the client has created
  depth,     \* how many "async with client" scopes are entered and not exited
  requests,  \* how many HTTP requests the client has issued
  result,    \* the last operation: request sent, response, return or raise
  vnErrors   \* per non-200 status, the exception type post_vn raised for it

vars == <<ctor, parsed, session, opened, created, depth, requests, result, vnErrors>>

clientVars == <<session, opened, created, depth, requests, result, vnErrors>>

(***************************************************************************)
(* Bounds of the model.                                                    *)
(***************************************************************************)
\* longest string-list field of a VNFilter that is enumerated
MaxListLen == 2
\* largest number of VNFilter fields that differ from their default
MaxFieldsSet == 2
\* largest number of comparison fields passed to Released(...) / Length(...)
MaxArgsSet == 2
\* largest number of sessions one client creates
MaxSessions == 3
\* largest number of HTTP requests one client issues
MaxRequests == 3

(***************************************************************************)
(* Python values.                                                          *)
(***************************************************************************)
PyNone == [t |-> "None"]

PyStr(s) == [t |-> "str", v |-> s]

PyInt(i) == [t |-> "int", v |-> i]

PyList(q) == [t |-> "list", v |-> q]

\* bool(x) for the values above: None, "", 0 and [] are false
Truthy(x) ==
  CASE x.t = "None" -> FALSE
    [] x.t = "str" -> x.v # ""
    [] x.t = "int" -> x.v # 0
    [] x.t = "list" -> Len(x.v) > 0
    [] OTHER -> TRUE

(***************************************************************************)
(* Strings as characters: Text(c) is the string whose characters are c,    *)
(* and Chars(s) the characters of a string s of DateStrings.               *)
(***************************************************************************)
RECURSIVE Text(_)
Text(c) == IF c = <<>> THEN "" ELSE Head(c) \o Text(Tail(c))

Digits == {"0", "1", "2", "3", "4", "5", "6", "7", "8", "9"}

DigitVal(ch) ==
  CASE ch = "0" -> 0 [] ch = "1" -> 1 [] ch = "2" -> 2 [] ch = "3" -> 3
    [] ch = "4" -> 4 [] ch = "5" -> 5 [] ch = "6" -> 6 [] ch = "7" -> 7
    [] ch = "8" -> 8 [] ch = "9" -> 9

\* the date operands that are enumerated, as character sequences
DateChars ==
  { <<"2","0","2","0","-","0","1","-","0","1">>,
    <<"2","0","2","4","-","0","2","-","2","9">>,
    <<"1","9","9","9","-","1","2","-","3","1">>,
    <<"2","0","2","3","-","0","2","-","2","9">>,
    <<"2","0","2","0","-","0","2","-","3","0">>,
    <<"2","0","2","0","-","1","3","-","0","1">>,
    <<"2","0","2","0","-","0","1","-","3","2">>,
    <<"2","0","2","0","-","0","0","-","1","0">>,
    <<"0","0","0","0","-","0","1","-","0","1">>,
    <<"2","0","2","0","-","1","-","1">>,
    <<"2","0","2","0","-","0","1","-"," ","1">>,
    <<"2","0","2","0","-","0","1","-","0","1"," ">>,
    <<"2","0","-","0","1","-","0","1">>,
    <<"2","0","2","0","/","0","1","/","0","1">>,
    <<"0","1","-","0","1","-","2","0","2","0">>,
    <<"2","0","2","0","0","1","0","1">>,
    <<"2","0","2","0">>,
    <<"x">> }

DateStrings == { Text(c) : c \in DateChars }

Chars(s) == CHOOSE c \in DateChars : Text(c) = s

(***************************************************************************)
(* datetime.datetime.strptime(s, "%Y-%m-%d"): the format compiles to the   *)
(* regular expression                                                      *)
(*   (\d\d\d\d)-(1[0-2]|0[1-9]|[1-9])-(3[0-1]|[1-2]\d|0[1-9]|[1-9]| [1-9]) *)
(* matched at the start of s; text left after the match, a year below 1    *)
(* and a day the month does not have each raise ValueError.                *)
(***************************************************************************)
At(c, i) == IF i >= 1 /\ i <= Len(c) THEN c[i] ELSE ""

NonZeroDigits == Digits \ {"0"}

\* length of the text the month group matches at position p, 0 for no match
MonthLen(c, p) ==
  CASE At(c, p) = "1" /\ At(c, p + 1) \in {"0", "1", "2"} -> 2
    [] At(c, p) = "0" /\ At(c, p + 1) \in NonZeroDigits -> 2
    [] At(c, p) \in NonZeroDigits -> 1
    [] OTHER -> 0

\* length of the text the day group matches at position p, 0 for no match
DayLen(c, p) ==
  CASE At(c, p) = "3" /\ At(c, p + 1) \in {"0", "1"} -> 2
    [] At(c, p) \in {"1", "2"} /\ At(c, p + 1) \in Digits -> 2
    [] At(c, p) = "0" /\ At(c, p + 1) \in NonZeroDigits -> 2
    [] At(c, p) \in NonZeroDigits -> 1
    [] At(c, p) = " " /\ At(c, p + 1) \in NonZeroDigits -> 2
    [] OTHER -> 0

\* int() of the text of length n at position p (a leading blank is skipped)
NumAt(c, p, n) ==
  IF n = 1 THEN DigitVal(c[p])
  ELSE IF c[p] = " " THEN DigitVal(c[p + 1])
  ELSE 10 * DigitVal(c[p]) + DigitVal(c[p + 1])

IsLeap(y) == (y % 4 = 0) /\ ((y % 100 # 0) \/ (y % 400 = 0))

DaysInMonth(y, m) ==
  CASE m \in {1, 3, 5, 7, 8, 10, 12} -> 31
    [] m \in {4, 6, 9, 11} -> 30
    [] OTHER -> IF IsLeap(y) THEN 29 ELSE 28

YearVal(c) ==
  1000 * DigitVal(c[1]) + 100 * DigitVal(c[2]) + 10 * DigitVal(c[3]) + DigitVal(c[4])

\* "ok" when strptime returns a datetime, "ValueError" when it raises
strptime(s) ==
  LET c == Chars(s)
      ml == MonthLen(c, 6)
      dp == 6 + ml + 1
      dl == DayLen(c, dp)
      matched ==
        /\ \A i \in 1..4 : At(c, i) \in Digits
        /\ At(c, 5) = "-"
        /\ ml > 0
        /\ At(c, 6 + ml) = "-"
        /\ dl > 0
  IN IF ~matched THEN "ValueError"
     ELSE IF dp + dl - 1 # Len(c) THEN "ValueError"
     ELSE IF YearVal(c) < 1 THEN "ValueError"
     ELSE IF NumAt(c, dp, dl) > DaysInMonth(YearVal(c), NumAt(c, 6, ml)) THEN "ValueError"
     ELSE "ok"

(***************************************************************************)
(* Released and Length: frozen records whose __post_init__ counts the      *)
(* comparison fields that are true and refuses any count but one.          *)
(***************************************************************************)
ReleasedFields == <<"eq", "neq", "lt", "gt", "geq", "leq">>

LengthFields == <<"eq", "neq">>

IllformedVNDBQuery == "IllformedVNDBQuery"

\* sum([bool(self.eq), bool(self.neq), ...])
sum_of_selected(obj, fields) ==
  Cardinality({ i \in 1..Len(fields) : Truthy(obj[fields[i]]) })

\* Released.__post_init__ without the "more than one" check
Released_post_init_lax(obj) ==
  LET n == sum_of_selected(obj, ReleasedFields)
  IN IF n = 0 THEN [outcome |-> IllformedVNDBQuery, msg |-> "At least one of the attributes must be set."]
     ELSE [outcome |-> "ok", msg |-> ""]

Released_post_init(obj) ==
  LET n == sum_of_selected(obj, ReleasedFields)
  IN IF n > 1 THEN [outcome |-> IllformedVNDBQuery, msg |-> "Only one of the attributes can be set at a time."]
     ELSE IF n = 0 THEN [outcome |-> IllformedVNDBQuery, msg |-> "At least one of the attributes must be set."]
     ELSE [outcome |-> "ok", msg |-> ""]

Length_post_init(obj) ==
  LET n == sum_of_selected(obj, LengthFields)
  IN IF n > 1 THEN [outcome |-> IllformedVNDBQuery, msg |-> "Only one of the attributes can be set at a time."]
     ELSE IF n = 0 THEN [outcome |-> IllformedVNDBQuery, msg |-> "At least one of the attributes must be set."]
     ELSE [outcome |-> "ok", msg |-> ""]

\* Released._parse: the [operator, operand] pair of the first true field
Released_parse(obj) ==
  IF Truthy(obj.eq) THEN PyList(<<PyStr("="), obj.eq>>)
  ELSE IF Truthy(obj.neq) THEN PyList(<<PyStr("!="), obj.neq>>)
  ELSE IF Truthy(obj.lt) THEN PyList(<<PyStr("<"), obj.lt>>)
  ELSE IF Truthy(obj.gt) THEN PyList(<<PyStr(">"), obj.gt>>)
  ELSE IF Truthy(obj.geq) THEN PyList(<<PyStr(">="), obj.geq>>)
  ELSE IF Truthy(obj.leq) THEN PyList(<<PyStr("<="), obj.leq>>)
  ELSE PyNone

Length_parse(obj) ==
  IF Truthy(obj.eq) THEN PyList(<<PyStr("="), obj.eq>>)
  ELSE IF Truthy(obj.neq) THEN PyList(<<PyStr("!="), obj.neq>>)
  ELSE PyNone

(***************************************************************************)
(* VNDBFilter.__post_init__: each of the three date fields that is true    *)
(* goes through strptime, in the order Before, After, On.                  *)
(***************************************************************************)
VNDBFilter_post_init(obj) ==
  IF Truthy(obj.releasedBefore) /\ strptime(obj.releasedBefore.v) = "ValueError"
  THEN [outcome |-> IllformedVNDBQuery, msg |-> "releasedBefore must be in the YYYY-MM-DD format and must be a valid date."]
  ELSE IF Truthy(obj.releasedAfter) /\ strptime(obj.releasedAfter.v) = "ValueError"
  THEN [outcome |-> IllformedVNDBQuery, msg |-> "releasedAfter must be in the YYYY-MM-DD format and must be a valid date."]
  ELSE IF Truthy(obj.releasedOn) /\ strptime(obj.releasedOn.v) = "ValueError"
  THEN [outcome |-> IllformedVNDBQuery, msg |-> "releasedOn must be in the YYYY-MM-DD format and must be a valid date."]
  ELSE [outcome |-> "ok", msg |-> ""]

(***************************************************************************)
(* The arguments the constructors are called with.                         *)
(***************************************************************************)
\* a date field of a VNDBFilter: None, the empty string, or one of DateStrings
DateArgs == {PyNone, PyStr("")} \cup { PyStr(s) : s \in DateStrings }

\* a comparison field of a Released: None, the empty string, or a date operand
ReleasedArgs ==
  {PyNone, PyStr("")} \cup { PyStr(s) : s \in {"2020-01-01", "1999-12-31", "2020-1-1", "2020-13-01", "x"} }

LengthArgs == {PyNone} \cup { PyInt(i) : i \in 0..2 }

NoReleased ==
  [t |-> "Released", eq |-> PyNone, neq |-> PyNone, lt |-> PyNone,
   gt |-> PyNone, geq |-> PyNone, leq |-> PyNone]

NoLength == [t |-> "Length", eq |-> PyNone, neq |-> PyNone]

\* the records that give the fields of S a value of vals other than None
RECURSIVE Assign(_, _, _)
Assign(S, obj, vals) ==
  IF S = {} THEN {obj}
  ELSE LET k == CHOOSE k \in S : TRUE
       IN UNION { Assign(S \ {k}, [obj EXCEPT ![k] = v], vals) : v \in vals \ {PyNone} }

FieldSets(fields, n) ==
  { S \in SUBSET { fields[i] : i \in 1..Len(fields) } : Cardinality(S) <= n }

ReleasedInputs == UNION { Assign(S, NoReleased, ReleasedArgs) : S \in FieldSets(ReleasedFields, MaxArgsSet) }

LengthInputs == UNION { Assign(S, NoLength, LengthArgs) : S \in FieldSets(LengthFields, MaxArgsSet) }

VNDBFilterInputs ==
  { [t |-> "VNDBFilter", releasedBefore |-> b, releasedAfter |-> a, releasedOn |-> o] :
      b \in DateArgs, a \in {PyStr("")} \cup { PyStr(s) : s \in DateStrings }, o \in {PyStr(""), PyStr("2020-01-01"), PyStr("x")} }

(***************************************************************************)
(* Construction: ctor holds a constructor call, its arguments and, once    *)
(* __post_init__ has run, whether the object was returned ("ok") or the    *)
(* call raised.                                                            *)
(***************************************************************************)
Call(cls, obj) ==
  [cls |-> cls, args |-> obj, outcome |-> "pending", msg |-> "", object |-> PyNone]

\* the caller gets the object only when __post_init__ did not raise
Constructed(cls, obj, checked) ==
  [cls |-> cls, args |-> obj, outcome |-> checked.outcome, msg |-> checked.msg,
   object |-> IF checked.outcome = "ok" THEN obj ELSE PyNone]

ConstructReleased ==
  /\ ctor.cls = "Released" /\ ctor.outcome = "pending"
  /\ ctor' = Constructed("Released", ctor.args, Released_post_init(ctor.args))
  /\ UNCHANGED <<parsed, clientVars>>

ConstructLength ==
  /\ ctor.cls = "Length" /\ ctor.outcome = "pending"
  /\ ctor' = Constructed("Length", ctor.args, Length_post_init(ctor.args))
  /\ UNCHANGED <<parsed, clientVars>>

ConstructVNDBFilter ==
  /\ ctor.cls = "VNDBFilter" /\ ctor.outcome = "pending"
  /\ ctor' = Constructed("VNDBFilter", ctor.args, VNDBFilter_post_init(ctor.args))
  /\ UNCHANGED <<parsed, clientVars>>

(***************************************************************************)
(* VNFilter and its translation.                                           *)
(***************************************************************************)
VNFilterFields ==
  <<"id", "lang", "olang", "platform", "released", "length", "tag", "dtag", "anime_id">>

StringListFields == {"lang", "olang", "platform", "tag", "dtag"}

\* VNFilter(): every field at its default
DefaultVNFilter ==
  [t |-> "VNFilter", id |-> PyStr(""), lang |-> PyList(<<>>), olang |-> PyList(<<>>),
   platform |-> PyList(<<>>), released |-> PyNone, length |-> PyNone,
   tag |-> PyList(<<>>), dtag |-> PyList(<<>>), anime_id |-> PyInt(0)]

\* VNFilter._dict: the (key, value) items in insertion order, true values only
initial_dict(f) ==
  << <<"id", IF Truthy(f.id) THEN f.id ELSE PyNone>>,
     <<"lang", IF Truthy(f.lang) THEN f.lang ELSE PyNone>>,
     <<"olang", IF Truthy(f.olang) THEN f.olang ELSE PyNone>>,
     <<"platform", IF Truthy(f.platform) THEN f.platform ELSE PyNone>>,
     <<"released", IF Truthy(f.released) THEN Released_parse(f.released) ELSE PyNone>>,
     <<"length", IF Truthy(f.length) THEN Length_parse(f.length) ELSE PyNone>>,
     <<"tag", IF Truthy(f.tag) THEN f.tag ELSE PyNone>>,
     <<"dtag", IF Truthy(f.dtag) THEN f.dtag ELSE PyNone>>,
     <<"anime_id", f.anime_id>> >>

VNFilter_dict(f) == SelectSeq(initial_dict(f), LAMBDA kv : Truthy(kv[2]))

\* [k, "=", value]
EqClause(k, value) == PyList(<<PyStr(k), PyStr("="), value>>)

\* the loop body emitting one clause for a whole string list
ItemClauses_first(k, v) ==
  (IF v.t = "list"
   THEN IF v.v[1].t = "str"
        THEN << EqClause(k, v.v[1]) >>
        ELSE << PyList(<<PyStr(k)>> \o v.v) >>
   ELSE << >>)
  \o (IF v.t = "str" THEN << EqClause(k, v) >> ELSE << >>)
  \o (IF v.t = "int" THEN << EqClause(k, v) >> ELSE << >>)

\* what one (k, v) item of the loop of _parse_vn_filter appends to temp_list
ItemClauses(k, v) ==
  (IF v.t = "list"
   THEN IF v.v[1].t = "str"
        THEN [i \in 1..Len(v.v) |-> EqClause(k, v.v[i])]
        ELSE << PyList(<<PyStr(k)>> \o v.v) >>
   ELSE << >>)
  \o (IF v.t = "str" THEN << EqClause(k, v) >> ELSE << >>)
  \o (IF v.t = "int" THEN << EqClause(k, v) >> ELSE << >>)

RECURSIVE temp_list(_)
temp_list(items) ==
  IF items = << >> THEN << >>
  ELSE ItemClauses(Head(items)[1], Head(items)[2]) \o temp_list(Tail(items))

parse_vn_filter(filter) ==
  IF ~Truthy(filter) THEN << >>
  ELSE <<PyStr("and")>> \o temp_list(VNFilter_dict(filter))

(***************************************************************************)
(* The filters that are translated: at most MaxFieldsSet fields away from  *)
(* the default, string lists of at most MaxListLen elements, and range     *)
(* sub-filters that their constructor accepted.                            *)
(***************************************************************************)
ListsOver(A) ==
  { PyList(q) : q \in UNION { [1..n -> { PyStr(a) : a \in A }] : n \in 0..MaxListLen } }

FilterDates == {"2020-01-01", "x"}

\* Released(op=d), and the same with eq="" passed along, which the check lets through
OneFieldReleased ==
  UNION { { [NoReleased EXCEPT ![ReleasedFields[i]] = PyStr(d)] : d \in FilterDates }
            : i \in 1..Len(ReleasedFields) }

ReleasedObjects ==
  { r \in OneFieldReleased \cup { [r EXCEPT !.eq = PyStr("")] : r \in { q \in OneFieldReleased : q.eq = PyNone } }
      : Released_post_init(r).outcome = "ok" }

LengthObjects == { l \in LengthInputs : Length_post_init(l).outcome = "ok" }

FieldValues(k) ==
  CASE k = "id" -> {PyNone, PyStr(""), PyStr("v17")}
    [] k = "lang" -> {PyNone} \cup ListsOver({"en"})
    [] k = "olang" -> {PyNone} \cup ListsOver({"ja"})
    [] k = "platform" -> {PyNone} \cup ListsOver({"win"})
    [] k = "tag" -> {PyNone} \cup ListsOver({"g3998", "g7"})
    [] k = "dtag" -> {PyNone} \cup ListsOver({"g7"})
    [] k = "released" -> {PyNone} \cup ReleasedObjects
    [] k = "length" -> {PyNone} \cup LengthObjects
    [] k = "anime_id" -> {PyNone, PyInt(0), PyInt(5), PyInt(17)}

RECURSIVE AssignFields(_, _)
AssignFields(S, f) ==
  IF S = {} THEN {f}
  ELSE LET k == CHOOSE k \in S : TRUE
       IN UNION { AssignFields(S \ {k}, [f EXCEPT ![k] = v]) : v \in FieldValues(k) \ {f[k]} }

\* the filters with at most n fields away from the default
FilterInputs(n) ==
  UNION { AssignFields(S, DefaultVNFilter) : S \in FieldSets(VNFilterFields, n) }

\* one call of _parse_vn_filter: its argument and the list it returns
ParseVNFilter ==
  /\ ~parsed.called
  /\ parsed' = [called |-> TRUE, arg |-> parsed.arg, out |-> parse_vn_filter(parsed.arg)]
  /\ UNCHANGED <<ctor, clientVars>>

NoCall == [cls |-> "none", args |-> PyNone, outcome |-> "none", msg |-> "", object |-> PyNone]

NotParsed(f) == [called |-> FALSE, arg |-> f, out |-> << >>]

(***************************************************************************)
(* VNDBClient: the session handle and the scope that owns it.              *)
(***************************************************************************)
NoSession == 0

NOT_INITIALIZED == "VNDBClient not initialized"

\* __aenter__: a new ClientSession replaces whatever the handle held
AEnter ==
  /\ created < MaxSessions
  /\ created' = created + 1
  /\ session' = created + 1
  /\ opened' = opened \cup {created + 1}
  /\ depth' = depth + 1
  /\ UNCHANGED <<ctor, parsed, requests, result, vnErrors>>

\* __aexit__: closes the session the handle holds, if any, and clears it
AExit ==
  /\ depth > 0
  /\ depth' = depth - 1
  /\ IF session # NoSession
     THEN /\ opened' = opened \ {session}
          /\ session' = NoSession
     ELSE UNCHANGED <<opened, session>>
  /\ UNCHANGED <<ctor, parsed, created, requests, result, vnErrors>>

\* the _client property without its check
client_unchecked(sess) == [raises |-> FALSE, session |-> sess]

\* the _client property: the session, or RuntimeError(NOT_INITIALIZED)
client(sess) ==
  IF sess = NoSession
  THEN [raises |-> TRUE, session |-> NoSession]
  ELSE [raises |-> FALSE, session |-> sess]

(***************************************************************************)
(* What the transport answers: a response with a status and a JSON body,   *)
(* or an aiohttp.ClientError.                                              *)
(***************************************************************************)
Statuses == {200, 404, 429, 500}

NoResponse == [kind |-> "none", status |-> 0, body |-> "none"]

NoRequest == [method |-> "none"]

Responses(bodies) ==
  {[kind |-> "ClientError", status |-> 0, body |-> "none"]}
  \cup { [kind |-> "response", status |-> st, body |-> b] :
           st \in Statuses \ {200}, b \in {"error"} }
  \cup { [kind |-> "response", status |-> 200, body |-> b] : b \in bodies }

\* how an operation ends: a returned value or a raised exception
Return(value) ==
  [outcome |-> "return", exc |-> "none", msg |-> "", code |-> 0, value |-> value]

Raise(exc, msg, code) ==
  [outcome |-> "raise", exc |-> exc, msg |-> msg, code |-> code, value |-> "none"]

get_schema_outcome(resp) ==
  IF resp.kind = "ClientError" THEN Raise("RuntimeError", "Network error", 0)
  ELSE IF resp.status # 200 THEN Raise("RuntimeError", "Failed to fetch schema", resp.status)
  ELSE Return("json")

get_stats_outcome(resp) ==
  IF resp.kind = "ClientError" THEN Raise("RuntimeError", "Network error", 0)
  ELSE IF resp.status # 200 THEN Raise("RuntimeError", "Failed to fetch stats", resp.status)
  ELSE IF resp.body = "empty" THEN Raise("TypeError", "missing required arguments", 0)
  ELSE Return("VNDBStats")

get_user_outcome(resp) ==
  IF resp.kind = "ClientError" THEN Raise("RuntimeError", "Network error", 0)
  ELSE IF resp.status # 200 THEN Return("None")
  ELSE IF resp.body = "empty" THEN Return("None")
  ELSE IF resp.body = "null_entry" THEN Raise("TypeError", "argument after ** must be a mapping", 0)
  ELSE Return("VNDBUser")

get_authinfo_outcome(resp) ==
  IF resp.kind = "ClientError" THEN Raise("RuntimeError", "Network error", 0)
  ELSE IF resp.status # 200 THEN Return("None")
  ELSE IF resp.body = "empty" THEN Return("None")
  ELSE Return("VNDBAuthInfo")

\* post_vn has no try/except: a ClientError leaves it as it is
post_vn_outcome(resp) ==
  IF resp.kind = "ClientError" THEN Raise("ClientError", "", 0)
  ELSE IF resp.status = 429 THEN Raise("RuntimeError", "Rate limit exceeded. Please wait a few seconds and try again.", 0)
  ELSE IF resp.status # 200 THEN Raise("RuntimeError", "Failed to fetch VN", resp.status)
  ELSE IF resp.body = "empty" THEN Return("None")
  ELSE Return("list[VN]")

\* ["search", "=", query]
SearchClause(query) == <<PyStr("search"), PyStr("="), PyStr(query)>>

VN_FIELDS == "id,length,rating,devstatus,votecount"

\* post_vn sending the translated filter without the search clause
post_vn_payload_nosearch(query, filter) ==
  [filters |-> IF Truthy(filter)
               THEN parse_vn_filter(filter)
               ELSE SearchClause(query),
   fields |-> VN_FIELDS]

\* the JSON payload post_vn builds
post_vn_payload(query, filter) ==
  [filters |-> IF Truthy(filter)
               THEN Append(parse_vn_filter(filter), PyList(SearchClause(query)))
               ELSE SearchClause(query),
   fields |-> VN_FIELDS]

(***************************************************************************)
(* The five operations.  Each evaluates self._client first (post_vn after  *)
(* building its payload); without a session that raises and nothing is     *)
(* sent, otherwise one request goes out and the answer decides the end.    *)
(***************************************************************************)
Fail(op) ==
  /\ result' = [op |-> op, request |-> NoRequest, resp |-> NoResponse]
                 @@ Raise("RuntimeError", NOT_INITIALIZED, 0)
  /\ UNCHANGED <<requests, vnErrors>>

Send(op, req, resp, end) ==
  /\ requests < MaxRequests
  /\ requests' = requests + 1
  /\ result' = [op |-> op, request |-> req, resp |-> resp] @@ end

GetSchema ==
  /\ IF client(session).raises
     THEN Fail("get_schema")
     ELSE \E resp \in Responses({"data"}) :
            /\ Send("get_schema", [method |-> "GET", path |-> "/schema"], resp, get_schema_outcome(resp))
            /\ UNCHANGED vnErrors
  /\ UNCHANGED <<ctor, parsed, session, opened, created, depth>>

GetStats ==
  /\ IF client(session).raises
     THEN Fail("get_stats")
     ELSE \E resp \in Responses({"data", "empty"}) :
            /\ Send("get_stats", [method |-> "GET", path |-> "/stats"], resp, get_stats_outcome(resp))
            /\ UNCHANGED vnErrors
  /\ UNCHANGED <<ctor, parsed, session, opened, created, depth>>

GetUser ==
  /\ \E default_only \in BOOLEAN :
       IF client(session).raises
       THEN Fail("get_user")
       ELSE \E resp \in Responses({"data", "empty", "null_entry"}) :
              /\ Send("get_user",
                      [method |-> "GET", path |-> "/user", q |-> "yorhel",
                       fields |-> IF default_only THEN "" ELSE "lengthvotes,lengthvotes_sum"],
                      resp, get_user_outcome(resp))
              /\ UNCHANGED vnErrors
  /\ UNCHANGED <<ctor, parsed, session, opened, created, depth>>

GetAuthinfo ==
  /\ IF client(session).raises
     THEN Fail("get_authinfo")
     ELSE \E resp \in Responses({"data", "empty"}) :
            /\ Send("get_authinfo",
                    [method |-> "GET", path |-> "/authinfo", authorization |-> "token " \o "abcd"],
                    resp, get_authinfo_outcome(resp))
            /\ UNCHANGED vnErrors
  /\ UNCHANGED <<ctor, parsed, session, opened, created, depth>>

Queries == {"saya no uta", "fate"}

\* the filters post_vn is called with
ClientFilters ==
  { PyNone,
    DefaultVNFilter,
    [DefaultVNFilter EXCEPT !.tag = PyList(<<PyStr("g7")>>)],
    [DefaultVNFilter EXCEPT !.tag = PyList(<<PyStr("g3998"), PyStr("g7")>>)],
    [DefaultVNFilter EXCEPT !.anime_id = PyInt(5), !.id = PyStr("v17")],
    [DefaultVNFilter EXCEPT !.released = [NoReleased EXCEPT !.geq = PyStr("2020-01-01")]] }

PostVn ==
  /\ \E query \in Queries, filter \in ClientFilters :
       LET payload == post_vn_payload(query, filter)
       IN IF client(session).raises
          THEN Fail("post_vn")
          ELSE \E resp \in Responses({"data", "empty"}) :
                 LET end == post_vn_outcome(resp)
                 IN /\ Send("post_vn", [method |-> "POST", path |-> "/vn", json |-> payload,
                                        query |-> query, filter |-> filter], resp, end)
                    /\ vnErrors' = IF resp.kind = "response" /\ resp.status # 200 /\ end.outcome = "raise"
                                   THEN [vnErrors EXCEPT ![resp.status] = end.exc]
                                   ELSE vnErrors
  /\ UNCHANGED <<ctor, parsed, session, opened, created, depth>>

InitClient ==
  /\ session = NoSession
  /\ opened = {}
  /\ created = 0
  /\ depth = 0
  /\ requests = 0
  /\ result = [op |-> "none", request |-> NoRequest, resp |-> NoResponse] @@ Return("none")
  /\ vnErrors = [st \in Statuses \ {200} |-> "none"]

\* the client, with no filter record under construction or translation
Init ==
  /\ ctor = NoCall
  /\ parsed = NotParsed(PyNone)
  /\ InitClient

\* the client: scope entry and exit, and the five operations
Next == AEnter \/ AExit \/ GetSchema \/ GetStats \/ GetUser \/ GetAuthinfo \/ PostVn

Spec == Init /\ [][Next]_vars

\* a constructor of a filter record called with any of the enumerated arguments
InitCtor ==
  /\ ctor \in { Call("Released", obj) : obj \in ReleasedInputs }
         \cup { Call("Length", obj) : obj \in LengthInputs }
         \cup { Call("VNDBFilter", obj) : obj \in VNDBFilterInputs }
  /\ parsed = NotParsed(PyNone)
  /\ InitClient

NextCtor == ConstructReleased \/ ConstructLength \/ ConstructVNDBFilter

SpecCtor == InitCtor /\ [][NextCtor]_vars

\* _parse_vn_filter called with no filter or any of the enumerated filters
InitFilter ==
  /\ ctor = NoCall
  /\ parsed \in { NotParsed(f) : f \in FilterInputs(MaxFieldsSet) \cup {PyNone} }
  /\ InitClient

NextFilter == ParseVNFilter

SpecFilter == InitFilter /\ [][NextFilter]_vars

(***************************************************************************)
(* Properties.                                                             *)
(***************************************************************************)
\* a field a caller would call non-empty: not None, not "", not 0
NonEmpty(x) == x # PyNone /\ x # PyStr("") /\ x # PyInt(0)

\* the comparison operator each field of a range filter stands for
OperatorOf(k) ==
  CASE k = "eq" -> "=" [] k = "neq" -> "!=" [] k = "lt" -> "<"
    [] k = "gt" -> ">" [] k = "geq" -> ">=" [] k = "leq" -> "<="

\* the clauses of a translated filter whose first element is the field k
ClausesFor(out, k) == SelectSeq(Tail(out), LAMBDA c : c.v[1] = PyStr(k))

\* [field, operator, value] for the comparison field of a range filter that is set
RangeClause(k, obj, fields) ==
  LET i == CHOOSE i \in 1..Len(fields) : NonEmpty(obj[fields[i]])
  IN PyList(<<PyStr(k), PyStr(OperatorOf(fields[i])), obj[fields[i]]>>)

\* C1: a filter whose released (or length) sub-filter is set translates to
\* exactly one clause [field, operator, value] for that field and no other
\* clause for it.
C1_RangeClause ==
  (parsed.called /\ parsed.arg.t = "VNFilter") =>
     /\ parsed.arg.released # PyNone =>
          ClausesFor(parsed.out, "released")
            = << RangeClause("released", parsed.arg.released, ReleasedFields) >>
     /\ parsed.arg.length # PyNone =>
          ClausesFor(parsed.out, "length")
            = << RangeClause("length", parsed.arg.length, LengthFields) >>

\* C2: translating no filter (None) or a VNFilter with every field at its
\* empty default returns the empty list.
C2_EmptyFilter ==
  (parsed.called /\ (parsed.arg = PyNone \/ parsed.arg = DefaultVNFilter)) =>
     parsed.out = << >>

\* one "=" clause for a non-empty scalar field, one per element of a
\* non-empty string list, none for an empty, zero or absent field
ExpectedClauses(f, k) ==
  IF ~NonEmpty(f[k]) THEN << >>
  ELSE IF k \in StringListFields
  THEN [i \in 1..Len(f[k].v) |-> PyList(<<PyStr(k), PyStr("="), f[k].v[i]>>)]
  ELSE << PyList(<<PyStr(k), PyStr("="), f[k]>>) >>

RECURSIVE ExpectedFrom(_, _)
ExpectedFrom(f, i) ==
  IF i > Len(VNFilterFields) THEN << >>
  ELSE ExpectedClauses(f, VNFilterFields[i]) \o ExpectedFrom(f, i + 1)

\* C3: a filter with no range sub-filter translates to "and" followed by one
\* [field, "=", value] clause per non-empty scalar field and one per element
\* of each non-empty string list, in field and element order; empty, zero
\* and absent fields contribute nothing.
C3_EqualityClauses ==
  (/\ parsed.called /\ parsed.arg.t = "VNFilter"
   /\ parsed.arg.released = PyNone /\ parsed.arg.length = PyNone) =>
     parsed.out = <<PyStr("and")>> \o ExpectedFrom(parsed.arg, 1)

\* tag=["g3998","g7"] with anime_id=5 has been translated to three clauses
C3_Witness ==
  /\ parsed.called
  /\ parsed.arg = [DefaultVNFilter EXCEPT !.tag = PyList(<<PyStr("g3998"), PyStr("g7")>>),
                                          !.anime_id = PyInt(5)]
  /\ parsed.out = << PyStr("and"),
                     PyList(<<PyStr("tag"), PyStr("="), PyStr("g3998")>>),
                     PyList(<<PyStr("tag"), PyStr("="), PyStr("g7")>>),
                     PyList(<<PyStr("anime_id"), PyStr("="), PyInt(5)>>) >>

\* C4: the request post_vn sends carries the fixed field string, and as
\* filters the translated filter with ["search", "=", query] appended when a
\* filter is given, just ["search", "=", query] when none is.
C4_SearchPayload ==
  (result.op = "post_vn" /\ result.request.method = "POST") =>
     LET req == result.request
         search == <<PyStr("search"), PyStr("="), PyStr(req.query)>>
         sent == req.json.filters
     IN /\ req.json.fields = "id,length,rating,devstatus,votecount"
        /\ IF req.filter = PyNone
           THEN sent = search
           ELSE /\ Len(sent) = Len(parse_vn_filter(req.filter)) + 1
                /\ sent[1] = PyStr("and")
                /\ SubSeq(sent, 1, Len(sent) - 1) = parse_vn_filter(req.filter)
                /\ sent[Len(sent)] = PyList(search)

\* post_vn("saya no uta", filter=VNFilter(tag=["g7"])) has sent its request
C4_Witness ==
  /\ result.op = "post_vn" /\ result.request.method = "POST"
  /\ result.request.filter = [DefaultVNFilter EXCEPT !.tag = PyList(<<PyStr("g7")>>)]
  /\ result.request.json.filters
       = << PyStr("and"),
            PyList(<<PyStr("tag"), PyStr("="), PyStr("g7")>>),
            PyList(<<PyStr("search"), PyStr("="), PyStr("saya no uta")>>) >>

\* how many comparison fields of a range-filter call are non-empty
NonEmptyCount(obj, fields) ==
  Cardinality({ i \in 1..Len(fields) : NonEmpty(obj[fields[i]]) })

ComparisonFields(cls) == IF cls = "Released" THEN ReleasedFields ELSE LengthFields

\* C5: constructing a Released or Length succeeds iff exactly one comparison
\* field is non-empty; otherwise it raises IllformedVNDBQuery and the caller
\* gets no object.
C5_ExactlyOneField ==
  (ctor.cls \in {"Released", "Length"} /\ ctor.outcome # "pending") =>
     IF NonEmptyCount(ctor.args, ComparisonFields(ctor.cls)) = 1
     THEN ctor.outcome = "ok" /\ ctor.object = ctor.args
     ELSE ctor.outcome = "IllformedVNDBQuery" /\ ctor.object = PyNone

\* Released(eq=..., geq=...) with two non-empty fields has been refused
C5_Witness ==
  /\ ctor.cls = "Released" /\ ctor.outcome = "IllformedVNDBQuery"
  /\ ctor.args.eq = PyStr("2020-01-01") /\ ctor.args.geq = PyStr("1999-12-31")

\* a string of the form YYYY-MM-DD that names a day of the calendar
IsYMD(s) ==
  LET c == Chars(s)
  IN /\ Len(c) = 10
     /\ \A i \in {1, 2, 3, 4, 6, 7, 9, 10} : c[i] \in Digits
     /\ c[5] = "-" /\ c[8] = "-"
     /\ YearVal(c) >= 1
     /\ NumAt(c, 6, 2) \in 1..12
     /\ NumAt(c, 9, 2) \in 1..DaysInMonth(YearVal(c), NumAt(c, 6, 2))

DateFields(cls) ==
  IF cls = "Released" THEN ReleasedFields
  ELSE <<"releasedBefore", "releasedAfter", "releasedOn">>

\* the non-empty date operands of a constructor call
DateOperands(call) ==
  { call.args[DateFields(call.cls)[i]].v :
      i \in { j \in 1..Len(DateFields(call.cls)) : NonEmpty(call.args[DateFields(call.cls)[j]]) } }

\* C6: every date operand is validated at construction, of a Released as
\* well as of a VNDBFilter: a malformed date makes the construction raise
\* IllformedVNDBQuery, and valid dates let it succeed.
C6_DatesValidated ==
  (ctor.cls \in {"Released", "VNDBFilter"} /\ ctor.outcome # "pending") =>
     /\ (\E s \in DateOperands(ctor) : ~IsYMD(s)) => ctor.outcome = "IllformedVNDBQuery"
     /\ (/\ \A s \in DateOperands(ctor) : IsYMD(s)
         /\ ctor.cls = "Released" => Cardinality(DateOperands(ctor)) = 1) => ctor.outcome = "ok"

\* C7: an operation called while the client holds no session raises the
\* RuntimeError "VNDBClient not initialized", sends no request and leaves
\* the session handle alone.
C7_NoSessionFails ==
  [][ (session = NoSession /\ (result' # result \/ requests' # requests)) =>
        /\ result'.outcome = "raise"
        /\ result'.exc = "RuntimeError"
        /\ result'.msg = "VNDBClient not initialized"
        /\ result'.msg # "Network error"
        /\ result'.request = NoRequest
        /\ requests' = requests
        /\ session' = session ]_vars

\* after a scope in which a request was sent has exited, post_vn was called
C7_Witness ==
  /\ session = NoSession /\ created >= 1 /\ requests >= 1 /\ depth = 0
  /\ result.op = "post_vn" /\ result.outcome = "raise"
  /\ result.msg = NOT_INITIALIZED /\ result.request = NoRequest

\* C8: at most one session the client created is open at any time, and once
\* every scope has exited all of them are closed and the handle is None.
C8_OneSession ==
  /\ Cardinality(opened) <= 1
  /\ depth = 0 => (opened = {} /\ session = NoSession)

\* C9: the error post_vn raises for a 429 response is of another kind than
\* the error it raises for any other non-200 status.
C9_RateLimitKind ==
  \A st \in Statuses \ {200, 429} :
    (vnErrors[429] # "none" /\ vnErrors[st] # "none") => vnErrors[429] # vnErrors[st]

\* C10: an operation that received a non-200 response ends with an error,
\* never with a returned value.
C10_Non200Fails ==
  (result.resp.kind = "response" /\ result.resp.status # 200) => result.outcome = "raise"

\* C11: a transport failure (aiohttp.ClientError) during the request of any
\* of the five operations ends the operation with the RuntimeError
\* "Network error"; the ClientError itself never reaches the caller.
C11_NetworkErrorWrapped ==
  result.resp.kind = "ClientError" =>
     /\ result.outcome = "raise"
     /\ result.exc = "RuntimeError"
     /\ result.msg = "Network error"

====
